---- MODULE Spec2Model ----
(***************************************************************************)
(* The `post` command of toot/asynch/commands.py: option validation at     *)
(* parse time (validate_language), then the body of post(): the two usage  *)
(* checks, the read of piped standard input, the upload loop with its      *)
(* pairing of media and descriptions, the URL fallback text, the editor /  *)
(* interactive input, and the final emptiness check.                       *)
(*                                                                         *)
(* Python strings are sequences of one-character strings.  Python's None   *)
(* is the value None below, which is no string of the model.               *)
(***************************************************************************)
EXTENDS Integers, Sequences, FiniteSets, TLC

\* ---------------------------------------------------------------- bounds
MaxLen == 2      \* longest text typed, piped or written in the editor
MaxDesc == 2     \* most --description options
MaxMedia == 5    \* most --media options (one more than the limit)
MaxId == 1       \* identifiers RandLo..MaxId are drawn, and RandHi

\* ------------------------------------------------------ program constants
MediaLimit == 4
LanguageLen == 3
RandLo == 1
RandHi == 99999

\* ------------------------------------------------------------ Python data
None == <<"None">>

Chars == {"a", " "}

Whitespace == {" ", "\n", "\t"}

StringsOfLen(n) == [1..n -> Chars]

Strings == UNION {StringsOfLen(n) : n \in 0..MaxLen}

\* bool(x) of an Optional[str]: None and "" are false
Truthy(x) == x # None /\ x # <<>>

RECURSIVE rstrip(_)
rstrip(s) ==
    IF s = <<>> THEN <<>>
    ELSE IF s[Len(s)] \in Whitespace THEN rstrip(SubSeq(s, 1, Len(s) - 1))
    ELSE s

RECURSIVE lstrip(_)
lstrip(s) ==
    IF s = <<>> THEN <<>>
    ELSE IF s[1] \in Whitespace THEN lstrip(Tail(s))
    ELSE s

strip(s) == lstrip(rstrip(s))

DigitChar(d) == <<"0", "1", "2", "3", "4", "5", "6", "7", "8", "9">>[d + 1]

\* str(n) for n >= 0, as the f-string formats the identifier
RECURSIVE str(_)
str(n) ==
    IF n < 10 THEN <<DigitChar(n)>>
    ELSE str(n \div 10) \o <<DigitChar(n % 10)>>

UrlPrefix ==
    <<"h", "t", "t", "p", ":", "/", "/", "e", "x", "a", "m", "p", "l", "e",
      ".", "c", "o", "m", "/">>

\* "\n".join(parts)
RECURSIVE join(_)
join(parts) ==
    IF parts = <<>> THEN <<>>
    ELSE IF Len(parts) = 1 THEN parts[1]
    ELSE parts[1] \o <<"\n">> \o join(Tail(parts))

\* ------------------------------------------------------------ input sets
LanguageSet == {None, <<"e", "n">>, <<"e", "n", "g">>, <<"e", "n", "g", "l">>}

EditorSet == {None, <<"v", "i">>}

TextSet == {None, <<>>, <<"a", " ">>}

Path(i) == "file" \o ToString(i)

MediaSet == {[i \in 1..n |-> Path(i)] : n \in 0..MaxMedia}

DescChoices == {<<" ">>, <<" ", "a", " ">>}

DescriptionSet == UNION {[1..n -> DescChoices] : n \in 0..MaxDesc}

IdSet == (RandLo..MaxId) \cup {RandHi}

\* ----------------------------------------------------------------- state
VARIABLES
    pc,              \* position in the command
    language,        \* value of --language (None when omitted)
    text,            \* post(): text
    argText,         \* the TEXT argument as passed (text is reassigned)
    editor,          \* post(): editor
    media,           \* post(): media
    description,     \* post(): description
    isatty,          \* sys.stdin.isatty()
    piped,           \* what sys.stdin.read() returned (None: not read)
    uploaded_media,  \* post(): uploaded_media
    media_ids,       \* post(): media_ids
    uploadCalls,     \* arguments of the calls of _do_upload, in order
    events,          \* decision points evaluated and effects performed
    outcome          \* how the command ended

vars == <<pc, language, text, argText, editor, media, description, isatty,
          piped, uploaded_media, media_ids, uploadCalls, events, outcome>>

params == <<text, argText, editor, media, description, isatty>>

Init ==
    /\ pc = "parse"
    /\ language \in LanguageSet
    /\ text = None
    /\ argText = None
    /\ editor = None
    /\ media = <<>>
    /\ description = <<>>
    /\ isatty = TRUE
    /\ piped = None
    /\ uploaded_media = <<>>
    /\ media_ids = <<>>
    /\ uploadCalls = <<>>
    /\ events = <<>>
    /\ outcome = "running"

Raise(err) ==
    /\ pc' = "done"
    /\ outcome' = err

\* --------------------------------------------------------------- actions

\* validate_language(ctx, param, value): len(None) raises TypeError
validate_language(value) ==
    IF value = None THEN "TypeError"
    ELSE IF Len(value) # LanguageLen THEN "BadParameter"
    ELSE "ok"

\* click runs the option callback while parsing, before post() is called
ParseLanguage ==
    /\ pc = "parse"
    /\ events' = Append(events, "validate_language")
    /\ IF validate_language(language) = "ok"
       THEN pc' = "call" /\ UNCHANGED outcome
       ELSE Raise(validate_language(language))
    /\ UNCHANGED <<language, params, piped, uploaded_media, media_ids,
                   uploadCalls>>

\* click calls post(text, editor, media, description, language)
PostCall ==
    /\ pc = "call"
    /\ \E t \in TextSet, e \in EditorSet, m \in MediaSet,
          d \in DescriptionSet, tty \in BOOLEAN :
          /\ text' = t
          /\ argText' = t
          /\ editor' = e
          /\ media' = m
          /\ description' = d
          /\ isatty' = tty
    /\ pc' = "check_editor"
    /\ events' = Append(events, "post")
    /\ UNCHANGED <<language, piped, uploaded_media, media_ids, uploadCalls,
                   outcome>>

\* the check placed after the media-count check would let that one win
EditorWithoutTty_late == Truthy(editor) /\ ~isatty /\ Len(media) <= 4

EditorWithoutTty == Truthy(editor) /\ ~isatty

\* if editor and not sys.stdin.isatty(): raise UsageError
CheckEditor ==
    /\ pc = "check_editor"
    /\ events' = Append(events, "check_editor")
    /\ IF EditorWithoutTty
       THEN Raise("UsageError: editor")
       ELSE pc' = "check_media" /\ UNCHANGED outcome
    /\ UNCHANGED <<language, params, piped, uploaded_media, media_ids,
                   uploadCalls>>

\* off by one: five files are let through
TooManyMedia_off == Len(media) > MediaLimit + 1

TooManyMedia == Len(media) > MediaLimit

\* if len(media) > 4: raise UsageError
CheckMedia ==
    /\ pc = "check_media"
    /\ events' = Append(events, "check_media")
    /\ IF TooManyMedia
       THEN Raise("UsageError: media")
       ELSE pc' = "read_stdin" /\ UNCHANGED outcome
    /\ UNCHANGED <<language, params, piped, uploaded_media, media_ids,
                   uploadCalls>>

ReadsStdin == ~Truthy(text) /\ ~isatty

\* strip() in place of rstrip()
StdinText_strip(content) == strip(content)

StdinText(content) == rstrip(content)

\* if not text and not sys.stdin.isatty(): text = sys.stdin.read().rstrip()
ReadStdin ==
    /\ pc = "read_stdin"
    /\ IF ReadsStdin
       THEN \E content \in Strings :
               /\ piped' = content
               /\ text' = StdinText(content)
               /\ events' = Append(Append(events, "check_stdin"), "stdin_read")
       ELSE /\ events' = Append(events, "check_stdin")
            /\ UNCHANGED <<piped, text>>
    /\ pc' = "upload"
    /\ UNCHANGED <<language, argText, editor, media, description, isatty,
                   uploaded_media, media_ids, uploadCalls, outcome>>

\* description[idx].strip() if idx < len(description) else None
\* (idx counts from 1 here, from 0 in the code)
\* off by one in the bound of the index
FileDesc_off(idx) ==
    IF idx < Len(description) THEN strip(description[idx]) ELSE None

\* description[idx].strip() or None
FileDesc_orNone(idx) ==
    IF idx <= Len(description) /\ strip(description[idx]) # <<>>
    THEN strip(description[idx])
    ELSE None

FileDesc(idx) ==
    IF idx <= Len(description) THEN strip(description[idx]) ELSE None

\* _do_upload(file, description)
UploadResult(id) == [id |-> id, text_url |-> UrlPrefix \o str(id)]

\* one iteration of: for idx, file in enumerate(media)
Upload ==
    /\ pc = "upload"
    /\ Len(uploaded_media) < Len(media)
    /\ LET idx == Len(uploaded_media) + 1 IN
         /\ uploadCalls' = Append(uploadCalls,
                [file |-> media[idx], description |-> FileDesc(idx)])
         /\ \E id \in IdSet :
               uploaded_media' = Append(uploaded_media, UploadResult(id))
    /\ events' = Append(events, "upload")
    /\ UNCHANGED <<pc, language, params, piped, media_ids, outcome>>

MediaIds(uploaded) == [i \in 1..Len(uploaded) |-> uploaded[i].id]

\* the loop left after any iteration
CollectIds_early ==
    /\ pc = "upload"
    /\ media_ids' = [i \in 1..Len(uploaded_media) |-> uploaded_media[i].id]
    /\ pc' = "fallback"
    /\ UNCHANGED <<language, params, piped, uploaded_media, uploadCalls,
                   events, outcome>>

\* the loop is exhausted: media_ids = [m["id"] for m in uploaded_media]
CollectIds ==
    /\ pc = "upload"
    /\ Len(uploaded_media) >= Len(media)
    /\ media_ids' = MediaIds(uploaded_media)
    /\ pc' = "fallback"
    /\ UNCHANGED <<language, params, piped, uploaded_media, uploadCalls,
                   events, outcome>>

UsesFallback == uploaded_media # <<>> /\ ~Truthy(text)

\* the URLs joined in reverse order
FallbackText_rev(uploaded) ==
    join([i \in 1..Len(uploaded) |-> uploaded[Len(uploaded) + 1 - i].text_url])

FallbackText(uploaded) ==
    join([i \in 1..Len(uploaded) |-> uploaded[i].text_url])

\* if uploaded_media and not text: text = "\n".join(...)
Fallback ==
    /\ pc = "fallback"
    /\ IF UsesFallback
       THEN /\ text' = FallbackText(uploaded_media)
            /\ events' = Append(Append(events, "check_fallback"), "url_text")
       ELSE /\ events' = Append(events, "check_fallback")
            /\ UNCHANGED text
    /\ pc' = "compose"
    /\ UNCHANGED <<language, argText, editor, media, description, isatty,
                   piped, uploaded_media, media_ids, uploadCalls, outcome>>

\* toot.utils.editor_input(editor, initial_text): the text the user saved
editor_input(initial) ==
    Strings \cup {IF initial = None THEN <<>> ELSE initial}

\* toot.utils.multiline_input(): the text the user typed at the terminal;
\* a pipe was read to its end by sys.stdin.read() and has nothing left
multiline_input == IF isatty THEN Strings ELSE {<<>>}

UsesEditor == Truthy(editor)

UsesMultiline == ~Truthy(editor) /\ ~Truthy(text)

\* if editor: text = editor_input(editor, text)
\* elif not text: text = multiline_input()
Compose ==
    /\ pc = "compose"
    /\ IF UsesEditor
       THEN /\ text' \in editor_input(text)
            /\ events' = Append(Append(events, "check_compose"), "editor")
       ELSE IF UsesMultiline
       THEN /\ text' \in multiline_input
            /\ events' = Append(Append(events, "check_compose"), "multiline")
       ELSE /\ events' = Append(events, "check_compose")
            /\ UNCHANGED text
    /\ pc' = "final"
    /\ UNCHANGED <<language, argText, editor, media, description, isatty,
                   piped, uploaded_media, media_ids, uploadCalls, outcome>>

\* `text is None` in place of `not text`
NothingToPost_isNone == text = None

NothingToPost == ~Truthy(text)

\* if not text: raise UsageError
CheckEmpty ==
    /\ pc = "final"
    /\ events' = Append(events, "check_empty")
    /\ IF NothingToPost
       THEN Raise("UsageError: empty")
       ELSE pc' = "done" /\ outcome' = "ok"
    /\ UNCHANGED <<language, params, piped, uploaded_media, media_ids,
                   uploadCalls>>

Next ==
    \/ ParseLanguage
    \/ PostCall
    \/ CheckEditor
    \/ CheckMedia
    \/ ReadStdin
    \/ Upload
    \/ CollectIds
    \/ Fallback
    \/ Compose
    \/ CheckEmpty

Spec == Init /\ [][Next]_vars

\* ================================================================ claims

\* post() has been called (validation let the invocation through)
Entered == Len(events) >= 2 /\ events[2] = "post"

UsageErrors == {"UsageError: editor", "UsageError: media", "UsageError: empty"}

\* the upload loop has run to its end
PastUploads ==
    \/ pc \in {"fallback", "compose", "final"}
    \/ pc = "done" /\ outcome \in {"ok", "UsageError: empty"}

\* number of "upload" events among the first k events
UploadsBefore(k) == Cardinality({i \in 1..(k - 1) : events[i] = "upload"})

\* the remote URLs of the upload results, one per line, first upload first
RECURSIVE UrlLines(_)
UrlLines(ms) ==
    IF Len(ms) = 0 THEN <<>>
    ELSE IF Len(ms) = 1 THEN ms[1].text_url
    ELSE UrlLines(SubSeq(ms, 1, Len(ms) - 1)) \o <<"\n">> \o ms[Len(ms)].text_url

\* C1: an invocation of post with more than 4 media paths never calls
\* _do_upload, never gets past the two usage checks, and ends in a usage
\* error, whatever text, description, editor and isatty are.
C1_TooManyMediaNoUpload ==
    (Entered /\ Len(media) > 4) =>
        /\ uploadCalls = <<>>
        /\ uploaded_media = <<>>
        /\ pc \in {"check_editor", "check_media", "done"}
        /\ pc = "done" => outcome \in {"UsageError: editor", "UsageError: media"}

C1_Witness ==
    /\ pc = "done"
    /\ Len(media) = 5
    /\ outcome = "UsageError: media"
    /\ Truthy(text)
    /\ description # <<>>

\* C2: when editor mode is requested and stdin is no terminal, post ends with
\* the editor usage error at its first decision: the media count has not been
\* checked, stdin has not been read, nothing was uploaded, and neither the
\* editor nor interactive input ran.
C2_EditorNeedsTty ==
    (Entered /\ pc # "check_editor" /\ Truthy(editor) /\ ~isatty) =>
        /\ pc = "done"
        /\ outcome = "UsageError: editor"
        /\ events = <<"validate_language", "post", "check_editor">>
        /\ piped = None
        /\ uploadCalls = <<>>
        /\ text = argText

C2_Witness ==
    /\ pc = "done"
    /\ outcome = "UsageError: editor"
    /\ Len(media) > 4
    /\ ~Truthy(text)

\* C3 as stated: with piped stdin read (no text argument, stdin no terminal)
\* and 0-4 media, the text post resolves is the piped content without its
\* trailing whitespace, for every piped content.
C3_Original ==
    (pc \in {"compose", "final", "done"} /\ piped # None) => text = rstrip(piped)

\* C3 amended: the text right after the read is the piped content without its
\* trailing whitespace, and it stays the resolved text when it is not empty;
\* when it is empty and media were uploaded the resolved text is the uploads'
\* URLs, one per line.
C3_PipedText ==
    piped # None =>
        /\ ~Truthy(argText) /\ ~isatty /\ Len(media) <= 4
        /\ pc = "upload" => text = rstrip(piped)
        /\ pc \in {"fallback", "compose", "final", "done"} =>
              IF rstrip(piped) # <<>> THEN text = rstrip(piped)
              ELSE IF pc = "fallback" THEN text = <<>>
              ELSE media # <<>> => text = UrlLines(uploaded_media)

C3_Witness ==
    /\ pc = "done"
    /\ outcome = "ok"
    /\ piped = <<" ", " ">>
    /\ Len(media) = 2
    /\ text = UrlLines(uploaded_media)

\* C4 as stated: with text "" and no media every invocation of post ends in a
\* usage error and uploads nothing.
C4_Original ==
    (pc = "done" /\ Entered /\ argText = <<>> /\ media = <<>>) =>
        /\ outcome \in UsageErrors
        /\ uploadCalls = <<>>

\* C4 amended: with text "" and no media post uploads nothing, and it ends in
\* a usage error exactly when editor mode is requested without a terminal or
\* the text obtained from piped stdin, the editor or interactive input is
\* empty; otherwise it succeeds with that text.
C4_EmptyTextNoMedia ==
    (Entered /\ argText = <<>> /\ media = <<>>) =>
        /\ uploadCalls = <<>>
        /\ pc = "done" =>
              /\ outcome \in UsageErrors \cup {"ok"}
              /\ outcome \in UsageErrors <=>
                    (Truthy(editor) /\ ~isatty) \/ text = <<>>

C4_Witness ==
    /\ pc = "done"
    /\ argText = <<>>
    /\ media = <<>>
    /\ Entered
    /\ outcome = "UsageError: empty"
    /\ "multiline" \in {events[i] : i \in DOMAIN events}

\* C5: once the upload loop of an invocation with 0-4 media has ended, there
\* was exactly one upload per media path, in input order; the i-th upload got
\* the i-th description (trimmed) when there is one and None otherwise, so no
\* description at an index beyond the paths was used; media_ids has the
\* length and the order of the media paths.
C5_Pairing ==
    /\ Len(uploadCalls) <= Len(media)
    /\ Len(uploadCalls) = Len(uploaded_media)
    /\ PastUploads =>
        /\ Len(media) <= 4
        /\ Len(uploadCalls) = Len(media)
        /\ \A i \in 1..Len(media) :
              /\ uploadCalls[i].file = media[i]
              /\ uploadCalls[i].description =
                    IF i <= Len(description) THEN strip(description[i]) ELSE None
        /\ Len(media_ids) = Len(media)
        /\ \A i \in 1..Len(media) : media_ids[i] = uploaded_media[i].id

C5_Witness ==
    /\ PastUploads
    /\ Len(media) = 3
    /\ Len(description) = 2
    /\ description[2] = <<" ", "a", " ">>
    /\ uploadCalls[2].description = <<"a">>
    /\ uploadCalls[3].description = None
    /\ media_ids[1] # media_ids[3]

\* C6 as stated: a description that is empty after trimming reaches the
\* upload as None, as for a path without a description, never as "".
C6_Original ==
    \A i \in 1..Len(uploadCalls) :
        /\ (i <= Len(description) /\ strip(description[i]) = <<>>) =>
              uploadCalls[i].description = None
        /\ uploadCalls[i].description # <<>>

\* C6 amended: a description is trimmed of surrounding whitespace before use;
\* one that is empty after trimming reaches the upload as the empty string,
\* and only a path without a description at its index gets None.
C6_TrimmedDescription ==
    \A i \in 1..Len(uploadCalls) :
        /\ uploadCalls[i].description = None <=> i > Len(description)
        /\ i <= Len(description) =>
              /\ uploadCalls[i].description = lstrip(rstrip(description[i]))
              /\ (\A k \in DOMAIN description[i] : description[i][k] \in Whitespace)
                    => uploadCalls[i].description = <<>>

C6_Witness ==
    /\ Len(uploadCalls) = 2
    /\ description = <<<<" ">>, <<" ", "a", " ">>>>
    /\ uploadCalls[1].description = <<>>
    /\ uploadCalls[2].description = <<"a">>

C8_EmptyErrorOnlyWithoutMedia ==
    (pc = "done" /\ outcome \in {"ok", "UsageError: empty"}) =>
        (outcome = "UsageError: empty" <=>
            (~Truthy(text) /\ uploaded_media = <<>>))

\* C9: validation rejects --language exactly when it is given with a length
\* other than 3, the rejection comes before any stdin read or upload, and an
\* invocation without --language is not stopped by validation: it goes on
\* into post.
C9_LanguageOptional ==
    pc # "parse" =>
        /\ outcome = "BadParameter" <=> (language # None /\ Len(language) # 3)
        /\ outcome = "BadParameter" => (piped = None /\ uploadCalls = <<>>)
        /\ language = None => outcome # "TypeError"
        /\ (language = None /\ pc = "done") => Entered

TextSteps == {"stdin_read", "url_text", "editor", "multiline"}

DecisionRank(e) ==
    CASE e = "check_editor" -> 1
      [] e = "check_media" -> 2
      [] e = "check_stdin" -> 3
      [] e = "check_fallback" -> 4
      [] e = "check_compose" -> 5
      [] e = "check_empty" -> 6
      [] OTHER -> 0

IsDecision(e) == DecisionRank(e) > 0

====
